---------------------------- MODULE Spec2Model ----------------------------
(***************************************************************************)
(* ostrich-swarm: the per-swarm coordination engine.                       *)
(*                                                                         *)
(* The repository holds the engine twice.  src/managers holds it as three  *)
(* in-memory classes (JobScheduler, DeviceManager, AuthManager);           *)
(* src/SwarmCoordinator.ts holds it as a Durable Object that keeps the     *)
(* same records under storage keys.  The variable impl says which of the   *)
(* two is running; it never changes.  A variable stands for the field of   *)
(* the manager class and for the storage key of the Durable Object:        *)
(*                                                                         *)
(*   devices             DeviceManager.devices      device:<id>            *)
(*   jobQueue            JobScheduler.jobQueue      job:queue              *)
(*   deviceQuotas        JobScheduler.deviceQuotas  quota:<id>             *)
(*   deviceWeights       JobScheduler.deviceWeights scheduler:weights      *)
(*   totalWeight         JobScheduler.totalWeight   (not kept)             *)
(*   activeTokens        AuthManager.activeTokens   token:<code>           *)
(*   tokenGenerationLog  AuthManager.tokenGenerationLog  ratelimit:<swarm> *)
(*   runState, throttle, completed   (not kept)     swarm:state,           *)
(*                                       swarm:throttle, swarm:completed   *)
(*   sessions, sockets   (not kept)                 SwarmCoordinator       *)
(*                                                  .sessions, open sockets*)
(*   alarm               (not kept)                 the storage alarm      *)
(*   pending             (not kept)                 the handlers that have *)
(*                                                  begun and not ended,   *)
(*                                                  with their locals      *)
(*                                                                         *)
(* A Map is a function whose DOMAIN is the set of its keys.  Weights are   *)
(* kept in thousandths (opsScore / 1000 is then exact for a whole          *)
(* opsScore), times in milliseconds.  A handler of the Durable Object      *)
(* awaits storage operations only, and the object's input gate delivers no *)
(* other event while one is pending, so a handler is one step.             *)
(***************************************************************************)
EXTENDS Integers, Sequences, FiniteSets, TLC

VARIABLES impl, now, devices, jobQueue, deviceQuotas, deviceWeights,
          totalWeight, nextJob, runState, throttle, completed,
          activeTokens, tokenGenerationLog, sessions, sockets, nextSocket,
          alarm, sent, last, dispatched, issued, bound, pending

vars == <<impl, now, devices, jobQueue, deviceQuotas, deviceWeights,
          totalWeight, nextJob, runState, throttle, completed,
          activeTokens, tokenGenerationLog, sessions, sockets, nextSocket,
          alarm, sent, last, dispatched, issued, bound, pending>>

(***************************************************************************)
(* Bounds of the model.                                                    *)
(***************************************************************************)
\* Job identifiers ever generated (the code generates without end).
MaxJobs == 12
\* Jobs pushed by one generateJobs call (the code pushes GEN_BATCH = 100).
GenBatch == 3
\* Latency adjustments of one quota weight that are told apart.
MaxAdjust == 2
\* Completed jobs counted per device and per swarm.
MaxCompleted == 2

DeviceIds == {"d1", "d2"}
SwarmIds == {"s1", "s2"}
\* The swarm this Durable Object serves (this.state.id).
ThisSwarm == "s1"
JobTypes == {"MATH_STRESS", "MAT_MUL"}

\* Capability descriptors a client may send (cpuCores 0 takes the || 4 path).
CapsSet == { [cpuCores |-> 4, gpuAvailable |-> FALSE],
             [cpuCores |-> 2, gpuAvailable |-> TRUE],
             [cpuCores |-> 0, gpuAvailable |-> FALSE] }
ScoreSet == {0, 1000}
RequestedCounts == {1, 10}
\* durationMs of a job:complete; 0 stands for an absent duration.
Durations == {0, 1500, 2500}

Min(a, b) == IF a <= b THEN a ELSE b
Max(a, b) == IF a >= b THEN a ELSE b

RECURSIVE SumOver(_, _)
SumOver(f, S) ==
  IF S = {} THEN 0
  ELSE LET x == CHOOSE y \in S : TRUE IN f[x] + SumOver(f, S \ {x})

\* Map.set and Map.delete.
MapSet(m, k, v) == [x \in DOMAIN m \cup {k} |-> IF x = k THEN v ELSE m[x]]
MapDelete(m, k) == [x \in DOMAIN m \ {k} |-> m[x]]
EmptyMap == [x \in {} |-> 0]

(***************************************************************************)
(* JobScheduler (src/managers/JobScheduler.ts) and the scheduler part of   *)
(* SwarmCoordinator: the pure parts.                                       *)
(***************************************************************************)
\* cpuCores || 4
CoresOrDefault(caps) == IF caps.cpuCores = 0 THEN 4 ELSE caps.cpuCores

calculateWeight_ScoreFloor(device) ==
  LET cpu   == CoresOrDefault(device.capabilities) * 10000
      gpu   == IF device.capabilities.gpuAvailable THEN 50000 ELSE 0
      score == Min(Max(1000, device.opsScore), 100000)
  IN Max(1000, cpu + gpu + score)

\* JobScheduler.calculateWeight, in thousandths.
calculateWeight(device) ==
  LET cpu   == CoresOrDefault(device.capabilities) * 10000
      gpu   == IF device.capabilities.gpuAvailable THEN 50000 ELSE 0
      score == Min(device.opsScore, 100000)
  IN Max(1000, cpu + gpu + score)

\* SwarmCoordinator.calculateWeight: the same text.
SwarmCoordinator_calculateWeight(device) ==
  LET cpu   == CoresOrDefault(device.capabilities) * 10000
      gpu   == IF device.capabilities.gpuAvailable THEN 50000 ELSE 0
      score == Min(device.opsScore, 100000)
  IN Max(1000, cpu + gpu + score)

\* maxConcurrent of a new quota: Math.max(10, (cpuCores || 4) * 4).
maxConcurrent(caps) == Max(10, CoresOrDefault(caps) * 4)

\* The quota weight after the latency adjustments: base * 0.95^slow * 1.02^fast.
QuotaWeight(w) == [base |-> w, slow |-> 0, fast |-> 0]

newQuota(device, weight) ==
  [deviceId |-> device.id, weight |-> QuotaWeight(weight), activeJobs |-> 0,
   maxConcurrent |-> maxConcurrent(device.capabilities)]


totalAfterRegister_Added(total, weight, old) == total + weight

\* registerDevice, lines 43-44: the running total moves by the weight's change.
totalAfterRegister(total, weight, old) == total + weight - old

\* JobScheduler.registerDevice as a function of the scheduler's three maps.
registered(device, quotas, weights, total) ==
  LET weight == calculateWeight(device)
      old    == IF device.id \in DOMAIN weights THEN weights[device.id] ELSE 0
  IN [quotas  |-> MapSet(quotas, device.id, newQuota(device, weight)),
      weights |-> MapSet(weights, device.id, weight),
      total   |-> totalAfterRegister(total, weight, old)]

\* Math.max(1, Math.floor((weight / Math.max(1, totalWeight)) * requestedCount * 3))
\* (for the weights of this model the doubles give the same floor).
share(weight, total, requestedCount) ==
  Max(1, (weight * requestedCount * 3) \div Max(1000, total))

batchSize_NoSlots(sh, availableSlots, queueLength) == Min(sh, queueLength)

\* Math.min(share, availableSlots, this.jobQueue.length)
batchSize(sh, availableSlots, queueLength) ==
  Min(sh, Min(availableSlots, queueLength))

preferredType(caps) == IF caps.gpuAvailable THEN "MAT_MUL" ELSE "MATH_STRESS"

\* Array.findIndex on the job type, 1-based; 0 stands for -1.
findIndex(queue, type) ==
  IF \E i \in 1..Len(queue) : queue[i].type = type
  THEN CHOOSE i \in 1..Len(queue) :
         /\ queue[i].type = type
         /\ \A j \in 1..(i - 1) : queue[j].type # type
  ELSE 0

pickIndex_Oldest(queue, preferred) == 1

\* let idx = findIndex(...); if (idx === -1) idx = 0;
pickIndex(queue, preferred) ==
  LET idx == findIndex(queue, preferred) IN IF idx = 0 THEN 1 ELSE idx

splice_Keep(queue, idx) == queue

\* Array.splice(idx, 1): the queue without its idx-th job.
splice(queue, idx) == SubSeq(queue, 1, idx - 1) \o SubSeq(queue, idx + 1, Len(queue))

\* The selection loop of getJobBatchForDevice: n rounds, each moving one job
\* from the queue to the batch when the picked index is inside the queue.
RECURSIVE takeJobs(_, _, _, _)
takeJobs(queue, preferred, n, batch) ==
  IF n <= 0 THEN [batch |-> batch, queue |-> queue]
  ELSE LET idx == pickIndex(queue, preferred) IN
       IF idx <= Len(queue)
       THEN takeJobs(splice(queue, idx), preferred, n - 1, Append(batch, queue[idx]))
       ELSE takeJobs(queue, preferred, n - 1, batch)

\* quota.activeJobs-- under the guard quota.activeJobs > 0.
releasedActive(activeJobs) == IF activeJobs > 0 THEN activeJobs - 1 ELSE activeJobs

\* A variant of adjustedWeight with the slow threshold at 1000 ms.
adjustedWeight_EarlyPenalty(w, durationMs) ==
  IF durationMs > 0
  THEN IF durationMs > 1000
       THEN [w EXCEPT !.slow = @ + 1]
       ELSE [w EXCEPT !.fast = @ + 1]
  ELSE w

\* quota.weight *= latencyImpact (0.95 above 2000 ms, 1.02 otherwise), applied
\* only to a positive duration.
adjustedWeight(w, durationMs) ==
  IF durationMs > 0
  THEN IF durationMs > 2000
       THEN [w EXCEPT !.slow = @ + 1]
       ELSE [w EXCEPT !.fast = @ + 1]
  ELSE w

\* The model tells at most MaxAdjust adjustments of either kind apart.
AdjustInBounds(w) == w.slow <= MaxAdjust /\ w.fast <= MaxAdjust

\* releaseJobSlot on one quota record.
releasedQuota(quota, durationMs) ==
  IF quota.activeJobs > 0
  THEN [quota EXCEPT !.activeJobs = releasedActive(quota.activeJobs),
                     !.weight = adjustedWeight(quota.weight, durationMs)]
  ELSE quota

\* The jobs one generateJobs call pushes: fresh identifiers, a type each.
newJobs(first, types) ==
  [i \in 1..GenBatch |-> [id |-> first + i - 1, type |-> types[i]]]

JobIds(queue) == {queue[i].id : i \in 1..Len(queue)}


(***************************************************************************)
(* The initial state: the classes as constructed, the storage empty.       *)
(* runState "NONE" and throttle -1 stand for an absent storage key, alarm  *)
(* -1 for no alarm set.                                                    *)
(***************************************************************************)
InitState ==
  /\ now = 0
  /\ devices = EmptyMap
  /\ deviceQuotas = EmptyMap
  /\ deviceWeights = EmptyMap
  /\ totalWeight = 0
  /\ runState = "NONE"
  /\ throttle = -1
  /\ completed = 0
  /\ activeTokens = EmptyMap
  /\ tokenGenerationLog = EmptyMap
  /\ sessions = EmptyMap
  /\ sockets = {}
  /\ nextSocket = 1
  /\ alarm = -1
  /\ sent = << >>
  /\ last = [op |-> "init"]
  /\ dispatched = {}
  /\ issued = EmptyMap
  /\ bound = EmptyMap
  /\ pending = [handlers |-> EmptyMap, delivered |-> 0]

Init ==
  /\ impl \in {"managers", "durable"}
  /\ jobQueue = << >>
  /\ nextJob = 1
  /\ InitState

\* The variables of each component.
schedVars == <<jobQueue, deviceQuotas, deviceWeights, totalWeight, nextJob, dispatched>>
deviceVars == <<devices>>
authVars == <<activeTokens, tokenGenerationLog, issued, bound>>
swarmVars == <<runState, throttle, completed>>
connVars == <<sessions, sockets, nextSocket, alarm>>

\* A DeviceInfo as the JobScheduler reads it.
DeviceInfos ==
  { [id |-> d, capabilities |-> c, opsScore |-> sc] :
      d \in DeviceIds, c \in CapsSet, sc \in ScoreSet }

(***************************************************************************)
(* JobScheduler: the operations.                                           *)
(***************************************************************************)
\* A generateJobs that pushes whatever the queue holds.
generateJobs_NoCeiling(types, budget) ==
  /\ impl = "managers"
  /\ nextJob + GenBatch - 1 <= budget
  /\ jobQueue' = jobQueue \o newJobs(nextJob, types)
  /\ nextJob' = nextJob + GenBatch
  /\ last' = [op |-> "generateJobs"]
  /\ UNCHANGED <<impl, pending, now, deviceQuotas, deviceWeights, totalWeight,
                 dispatched, sent, deviceVars, authVars, swarmVars, connVars>>

\* setInterval(() => this.generateJobs(), 1000).  budget caps the job
\* identifiers a run may use.
generateJobs(types, budget) ==
  /\ impl = "managers"
  /\ nextJob + GenBatch - 1 <= budget
  /\ jobQueue' = IF Len(jobQueue) > 5000 THEN jobQueue
                 ELSE jobQueue \o newJobs(nextJob, types)
  /\ nextJob' = IF Len(jobQueue) > 5000 THEN nextJob ELSE nextJob + GenBatch
  /\ last' = [op |-> "generateJobs"]
  /\ UNCHANGED <<impl, pending, now, deviceQuotas, deviceWeights, totalWeight,
                 dispatched, sent, deviceVars, authVars, swarmVars, connVars>>

registerDevice(device) ==
  /\ impl = "managers"
  /\ LET r == registered(device, deviceQuotas, deviceWeights, totalWeight) IN
       /\ deviceQuotas' = r.quotas
       /\ deviceWeights' = r.weights
       /\ totalWeight' = r.total
  /\ last' = [op |-> "registerDevice", dev |-> device.id,
              known |-> device.id \in DOMAIN deviceQuotas]
  /\ UNCHANGED <<impl, pending, now, jobQueue, nextJob, dispatched, sent,
                 deviceVars, authVars, swarmVars, connVars>>

\* getJobBatchForDevice(device, requestedCount): an unknown device is
\* registered first and the call starts again.
getJobBatchForDevice(device, requestedCount) ==
  /\ impl = "managers"
  /\ LET known == device.id \in DOMAIN deviceQuotas
         r == IF known
              THEN [quotas |-> deviceQuotas, weights |-> deviceWeights,
                    total |-> totalWeight]
              ELSE registered(device, deviceQuotas, deviceWeights, totalWeight)
         quota == r.quotas[device.id]
         availableSlots == quota.maxConcurrent - quota.activeJobs
         weight == IF device.id \in DOMAIN r.weights THEN r.weights[device.id]
                   ELSE 1000
         sh == share(weight, r.total, requestedCount)
         n == batchSize(sh, availableSlots, Len(jobQueue))
         t == IF availableSlots <= 0
              THEN [batch |-> << >>, queue |-> jobQueue]
              ELSE takeJobs(jobQueue, preferredType(device.capabilities), n, << >>)
     IN
       /\ deviceQuotas' = [r.quotas EXCEPT ![device.id].activeJobs = @ + Len(t.batch)]
       /\ deviceWeights' = r.weights
       /\ totalWeight' = r.total
       /\ jobQueue' = t.queue
       /\ dispatched' = dispatched \cup JobIds(t.batch)
       /\ last' = [op |-> "getJobBatch", dev |-> device.id, known |-> known,
                   gpu |-> device.capabilities.gpuAvailable,
                   entryLen |-> Len(jobQueue), queue |-> jobQueue,
                   active |-> quota.activeJobs, slots |-> availableSlots,
                   share |-> sh, total |-> r.total, requested |-> requestedCount,
                   batch |-> t.batch, again |-> JobIds(t.batch) \cap dispatched]
  /\ UNCHANGED <<impl, pending, now, nextJob, sent,
                 deviceVars, authVars, swarmVars, connVars>>

releaseJobSlot(deviceId, durationMs) ==
  /\ impl = "managers"
  /\ IF deviceId \in DOMAIN deviceQuotas
     THEN /\ AdjustInBounds(releasedQuota(deviceQuotas[deviceId], durationMs).weight)
          /\ deviceQuotas' = [deviceQuotas EXCEPT
                                ![deviceId] = releasedQuota(@, durationMs)]
     ELSE UNCHANGED deviceQuotas
  /\ last' = [op |-> "releaseJobSlot", dev |-> deviceId, duration |-> durationMs,
              known |-> deviceId \in DOMAIN deviceQuotas,
              active |-> IF deviceId \in DOMAIN deviceQuotas
                         THEN deviceQuotas[deviceId].activeJobs ELSE 0]
  /\ UNCHANGED <<impl, pending, now, jobQueue, deviceWeights, totalWeight, nextJob,
                 dispatched, sent, deviceVars, authVars, swarmVars, connVars>>

(***************************************************************************)
(* SwarmCoordinator (src/SwarmCoordinator.ts).  A device record keeps the  *)
(* fields the coordinator reads again: name, type, lastUserInteraction and *)
(* swarmId are written and never read, and are left out.                   *)
(***************************************************************************)
\* Connections one run opens (fetch may be called without end).
MaxSockets == 3

\* A broadcastToSession that reaches every session.
toSession_Every(sess, open, persistentId, event, data) ==
  LET ids == {id \in DOMAIN sess : [persistentId |-> id, n |-> sess[id]] \in open} IN
  [i \in 1..Cardinality(ids) |->
     [to |-> CHOOSE n \in {sess[id] : id \in ids} :
               Cardinality({m \in {sess[id] : id \in ids} : m < n}) = i - 1,
      event |-> event, data |-> data]]

\* broadcastToSession: one message to the session kept for persistentId, when
\* there is one and its socket is open.
toSession(sess, open, persistentId, event, data) ==
  IF persistentId \in DOMAIN sess /\ [persistentId |-> persistentId, n |-> sess[persistentId]] \in open
  THEN << [to |-> sess[persistentId], event |-> event, data |-> data] >>
  ELSE << >>

RECURSIVE toEach(_, _, _, _)
toEach(ids, sess, event, data) ==
  IF ids = {} THEN << >>
  ELSE LET id == CHOOSE x \in ids : TRUE IN
       << [to |-> sess[id], event |-> event, data |-> data] >>
         \o toEach(ids \ {id}, sess, event, data)

\* broadcastToAll: one message to every session whose socket is open.
toAll(sess, open, event, data) ==
  toEach({id \in DOMAIN sess : [persistentId |-> id, n |-> sess[id]] \in open},
         sess, event, data)

\* systemLog: the log line goes to every session.
systemLog(sess, open, level, text, source) ==
  toAll(sess, open, "sys:log", [level |-> level, message |-> text, source |-> source])

\* Devices that count as online in a snapshot.
Counted(devs) == {d \in DOMAIN devs : devs[d].status # "OFFLINE" /\ devs[d].status # "DISABLED"}

\* Math.round(totalOpsScore * (currentThrottle / 100)) for whole operands.
globalVelocity(totalOpsScore, currentThrottle) ==
  (2 * totalOpsScore * currentThrottle + 100) \div 200

\* A snapshot whose velocity and active count do not look at the run state.
snapshot_Unconditional(devs, rs, comp, thr, queue) ==
  LET state == IF rs = "NONE" THEN "STOPPED" ELSE rs
      currentThrottle == IF thr = -1 \/ thr = 0 THEN 40 ELSE thr
      on == Counted(devs)
      totalOpsScore == SumOver([d \in on |-> devs[d].opsScore], on)
  IN [runState |-> state,
      devices |-> devs,
      stats |-> [totalJobs |-> comp + Len(queue),
                 activeJobs |-> Cardinality(on),
                 pendingJobs |-> Len(queue),
                 completedJobs |-> comp,
                 globalVelocity |-> globalVelocity(totalOpsScore, currentThrottle),
                 globalThrottle |-> currentThrottle],
      resources |-> [totalCores |-> SumOver([d \in on |-> devs[d].capabilities.cpuCores], on),
                     totalGPUs |-> Cardinality({d \in on : devs[d].capabilities.gpuAvailable}),
                     onlineCount |-> Cardinality(on)]]

\* The snapshot broadcastState builds from storage.
snapshot(devs, rs, comp, thr, queue) ==
  LET state == IF rs = "NONE" THEN "STOPPED" ELSE rs
      currentThrottle == IF thr = -1 \/ thr = 0 THEN 40 ELSE thr
      on == Counted(devs)
      totalOpsScore == SumOver([d \in on |-> devs[d].opsScore], on)
  IN [runState |-> state,
      devices |-> devs,
      stats |-> [totalJobs |-> comp + Len(queue),
                 activeJobs |-> IF state = "RUNNING" THEN Cardinality(on) ELSE 0,
                 pendingJobs |-> Len(queue),
                 completedJobs |-> comp,
                 globalVelocity |-> IF state = "RUNNING"
                                    THEN globalVelocity(totalOpsScore, currentThrottle)
                                    ELSE 0,
                 globalThrottle |-> currentThrottle],
      resources |-> [totalCores |-> SumOver([d \in on |-> devs[d].capabilities.cpuCores], on),
                     totalGPUs |-> Cardinality({d \in on : devs[d].capabilities.gpuAvailable}),
                     onlineCount |-> Cardinality(on)]]

\* broadcastState, on the storage as the handler leaves it.
broadcastState(sess, open, devs, rs, comp, thr, queue) ==
  toAll(sess, open, "swarm:snapshot", snapshot(devs, rs, comp, thr, queue))

\* registerDeviceInScheduler: a new quota, and the weight in the weight map.
registeredInScheduler(device, quotas, weights) ==
  LET weight == SwarmCoordinator_calculateWeight(device) IN
  [quotas  |-> MapSet(quotas, device.id, newQuota(device, weight)),
   weights |-> MapSet(weights, device.id, weight)]

\* fetch: the WebSocket upgrade of a connection for persistentId.
fetch(persistentId) ==
  /\ impl = "durable"
  /\ nextSocket <= MaxSockets
  /\ sockets' = sockets \cup {[persistentId |-> persistentId, n |-> nextSocket]}
  /\ sessions' = MapSet(sessions, persistentId, nextSocket)
  /\ nextSocket' = nextSocket + 1
  /\ alarm' = IF alarm = -1 THEN now + 2000 ELSE alarm
  /\ sent' = toSession(sessions', sockets', persistentId, "connect", "connected")
  /\ last' = [op |-> "fetch", dev |-> persistentId, socket |-> nextSocket]
  /\ UNCHANGED <<impl, pending, now, schedVars, deviceVars, authVars, swarmVars>>

\* device:register
handleRegister(sock, caps) ==
  /\ impl = "durable"
  /\ sock \in sockets
  /\ LET id == sock.persistentId
         known == id \in DOMAIN devices
         device == [id |-> id, status |-> "ONLINE", capabilities |-> caps,
                    opsScore |-> IF known THEN devices[id].opsScore ELSE 0,
                    totalJobsCompleted |-> IF known THEN devices[id].totalJobsCompleted ELSE 0,
                    lastHeartbeat |-> now]
         r == registeredInScheduler(device, deviceQuotas, deviceWeights)
     IN /\ devices' = MapSet(devices, id, device)
        /\ deviceQuotas' = r.quotas
        /\ deviceWeights' = r.weights
        /\ sent' = systemLog(sessions, sockets, "SYS", <<"Node Registered">>, "AUTH")
                   \o broadcastState(sessions, sockets, devices', runState, completed,
                                     throttle, jobQueue)
        /\ last' = [op |-> "device:register", dev |-> id, known |-> known,
                    status |-> IF known THEN devices[id].status ELSE "NONE"]
  /\ UNCHANGED <<impl, pending, now, jobQueue, totalWeight, nextJob, dispatched,
                 authVars, swarmVars, connVars>>

\* cmd:set_run_state
handleSetState(sock, state) ==
  /\ impl = "durable"
  /\ sock \in sockets
  /\ runState' = state
  /\ sent' = systemLog(sessions, sockets, "SYS", <<"Swarm state changed to", state>>, "MASTER")
             \o broadcastState(sessions, sockets, devices, runState', completed,
                               throttle, jobQueue)
  /\ last' = [op |-> "cmd:set_run_state", dev |-> sock.persistentId]
  /\ UNCHANGED <<impl, pending, now, schedVars, deviceVars, authVars, throttle,
                 completed, connVars>>


\* Math.max(1, Math.floor((weight / Math.max(1, totalWeight)) * 30))
SwarmCoordinator_share(weight, total) ==
  Max(1, (weight * 30) \div Max(1000, total))

\* Math.min(share, availableSlots, queue.length)
SwarmCoordinator_batchSize(sh, availableSlots, queueLength) ==
  Min(sh, Min(availableSlots, queueLength))

\* The selection loop of SwarmCoordinator.getJobBatchForDevice: the same text
\* as the JobScheduler's.
RECURSIVE SwarmCoordinator_takeJobs(_, _, _, _)
SwarmCoordinator_takeJobs(queue, preferred, n, batch) ==
  IF n <= 0 THEN [batch |-> batch, queue |-> queue]
  ELSE LET idx == pickIndex(queue, preferred) IN
       IF idx <= Len(queue)
       THEN SwarmCoordinator_takeJobs(splice(queue, idx), preferred, n - 1,
                                      Append(batch, queue[idx]))
       ELSE SwarmCoordinator_takeJobs(queue, preferred, n - 1, batch)

\* SwarmCoordinator.generateJobs on a queue: nothing above 5000 jobs.
SwarmCoordinator_generated(queue, first, types) ==
  IF Len(queue) > 5000 THEN queue ELSE queue \o newJobs(first, types)

\* SwarmCoordinator.getJobBatchForDevice on the storage: a device without a
\* quota is registered first, an empty queue is filled first, and the call
\* starts again each time.  types are the job types a generation draws.
SwarmCoordinator_getJobBatchForDevice(device, types) ==
  LET known == device.id \in DOMAIN deviceQuotas
      r == IF known THEN [quotas |-> deviceQuotas, weights |-> deviceWeights]
           ELSE registeredInScheduler(device, deviceQuotas, deviceWeights)
      quota == r.quotas[device.id]
      availableSlots == quota.maxConcurrent - quota.activeJobs
      generates == availableSlots > 0 /\ Len(jobQueue) = 0
      queue == IF generates
               THEN SwarmCoordinator_generated(jobQueue, nextJob, types)
               ELSE jobQueue
      total == SumOver(r.weights, DOMAIN r.weights)
      weight == IF device.id \in DOMAIN r.weights THEN r.weights[device.id] ELSE 1000
      sh == SwarmCoordinator_share(weight, total)
      n == SwarmCoordinator_batchSize(sh, availableSlots, Len(queue))
      t == IF availableSlots <= 0
           THEN [batch |-> << >>, queue |-> queue]
           ELSE SwarmCoordinator_takeJobs(queue, preferredType(device.capabilities),
                                          n, << >>)
  IN [quotas |-> [r.quotas EXCEPT ![device.id].activeJobs = @ + Len(t.batch)],
      weights |-> r.weights, queue |-> t.queue, batch |-> t.batch,
      generates |-> generates, selectedFrom |-> queue, known |-> known,
      active |-> quota.activeJobs, slots |-> availableSlots, share |-> sh,
      total |-> total]

\* job:request_batch.  budget caps the job identifiers a run may use.
handleJobRequest(sock, types, budget) ==
  /\ impl = "durable"
  /\ sock \in sockets
  /\ LET id == sock.persistentId
         serves == /\ runState = "RUNNING"
                   /\ id \in DOMAIN devices
                   /\ devices[id].status # "OFFLINE"
         b == SwarmCoordinator_getJobBatchForDevice(devices[id], types)
     IN IF serves
        THEN /\ b.generates => nextJob + GenBatch - 1 <= budget
             /\ deviceQuotas' = b.quotas
             /\ deviceWeights' = b.weights
             /\ jobQueue' = b.queue
             /\ nextJob' = IF b.generates THEN nextJob + GenBatch ELSE nextJob
             /\ dispatched' = dispatched \cup JobIds(b.batch)
             /\ sent' = IF Len(b.batch) > 0
                        THEN toSession(sessions, sockets, id, "job:batch", b.batch)
                        ELSE << >>
             /\ last' = [op |-> "getJobBatch", dev |-> id, known |-> b.known,
                         gpu |-> devices[id].capabilities.gpuAvailable,
                         entryLen |-> Len(jobQueue), queue |-> b.selectedFrom,
                         active |-> b.active, slots |-> b.slots,
                         share |-> b.share, total |-> b.total, requested |-> 10,
                         batch |-> b.batch, again |-> JobIds(b.batch) \cap dispatched]
        ELSE /\ UNCHANGED <<deviceQuotas, deviceWeights, jobQueue, nextJob, dispatched>>
             /\ sent' = << >>
             /\ last' = [op |-> "job:request_batch", dev |-> id]
  /\ UNCHANGED <<impl, pending, now, totalWeight, deviceVars, authVars, swarmVars, connVars>>

\* job:complete
handleJobComplete(sock, error, durationMs) ==
  /\ impl = "durable"
  /\ sock \in sockets
  /\ LET id == sock.persistentId
         hasQuota == id \in DOMAIN deviceQuotas
     IN /\ hasQuota => AdjustInBounds(releasedQuota(deviceQuotas[id], durationMs).weight)
        /\ ~error => completed < MaxCompleted
        /\ deviceQuotas' = IF hasQuota
                           THEN [deviceQuotas EXCEPT ![id] = releasedQuota(@, durationMs)]
                           ELSE deviceQuotas
        /\ completed' = IF error THEN completed ELSE completed + 1
        /\ devices' = IF ~error /\ id \in DOMAIN devices
                      THEN [devices EXCEPT ![id].totalJobsCompleted = @ + 1]
                      ELSE devices
        /\ sent' = (IF error
                    THEN systemLog(sessions, sockets, "ERR", <<"Job failed on", id>>, "COMPUTE")
                    ELSE << >>)
                   \o broadcastState(sessions, sockets, devices', runState, completed',
                                     throttle, jobQueue)
        /\ last' = [op |-> "job:complete", dev |-> id, error |-> error,
                    duration |-> durationMs, known |-> hasQuota,
                    active |-> IF hasQuota THEN deviceQuotas[id].activeJobs ELSE 0]
  /\ UNCHANGED <<impl, pending, now, jobQueue, deviceWeights, totalWeight, nextJob,
                 dispatched, authVars, runState, throttle, connVars>>

\* benchmark:result
handleBenchmarkResult(sock, score) ==
  /\ impl = "durable"
  /\ sock \in sockets
  /\ LET id == sock.persistentId
         known == id \in DOMAIN devices
         device == [devices[id] EXCEPT !.opsScore = score]
         r == registeredInScheduler(device, deviceQuotas, deviceWeights)
     IN /\ devices' = IF known THEN MapSet(devices, id, device) ELSE devices
        /\ deviceQuotas' = IF known THEN r.quotas ELSE deviceQuotas
        /\ deviceWeights' = IF known THEN r.weights ELSE deviceWeights
        /\ sent' = systemLog(sessions, sockets, "CPU", <<"Benchmark", score>>, id)
                   \o broadcastState(sessions, sockets, devices', runState, completed,
                                     throttle, jobQueue)
        /\ last' = [op |-> "benchmark:result", dev |-> id, known |-> known]
  /\ UNCHANGED <<impl, pending, now, jobQueue, totalWeight, nextJob, dispatched,
                 authVars, swarmVars, connVars>>


(***************************************************************************)
(* DeviceManager (src/managers/AuthManager.ts, lines 68-179) and the       *)
(* device part of SwarmCoordinator.                                        *)
(***************************************************************************)
\* The clock moves on to a later time.  An alarm that is due runs before the
\* clock moves on again.
Advance(to) ==
  /\ now < to
  /\ alarm # -1 => now < alarm
  /\ now' = to
  /\ last' = [op |-> "advance"]
  /\ sent' = << >>
  /\ UNCHANGED <<impl, pending, schedVars, deviceVars, authVars, swarmVars, connVars>>

StatusOf(devs, id) == IF id \in DOMAIN devs THEN devs[id].status ELSE "NONE"

\* The record DeviceManager.register and handleRegister store.
registeredDevice(devs, id, caps, time) ==
  [id |-> id, status |-> "ONLINE", capabilities |-> caps,
   opsScore |-> IF id \in DOMAIN devs THEN devs[id].opsScore ELSE 0,
   totalJobsCompleted |-> IF id \in DOMAIN devs THEN devs[id].totalJobsCompleted ELSE 0,
   lastHeartbeat |-> time]

DeviceManager_register(id, caps) ==
  /\ impl = "managers"
  /\ devices' = MapSet(devices, id, registeredDevice(devices, id, caps, now))
  /\ last' = [op |-> "register", dev |-> id, status |-> StatusOf(devices, id)]
  /\ UNCHANGED <<impl, pending, now, sent, schedVars, authVars, swarmVars, connVars>>

\* A heartbeat that would bring any device ONLINE.
heartbeatOn_Always(device, time) ==
  [device EXCEPT !.lastHeartbeat = time, !.status = "ONLINE"]

\* A heartbeat on one device record: lastHeartbeat, and ONLINE when the
\* status was OFFLINE or REGISTERED.
heartbeatOn(device, time) ==
  [device EXCEPT !.lastHeartbeat = time,
                 !.status = IF @ = "OFFLINE" \/ @ = "REGISTERED" THEN "ONLINE" ELSE @]

DeviceManager_heartbeat(id) ==
  /\ impl = "managers"
  /\ devices' = IF id \in DOMAIN devices
                THEN [devices EXCEPT ![id] = heartbeatOn(@, now)]
                ELSE devices
  /\ last' = [op |-> "heartbeat", dev |-> id, status |-> StatusOf(devices, id)]
  /\ UNCHANGED <<impl, pending, now, sent, schedVars, authVars, swarmVars, connVars>>

\* device.status = enabled ? "ONLINE" : "DISABLED"
toggled(device, enabled) ==
  [device EXCEPT !.status = IF enabled THEN "ONLINE" ELSE "DISABLED"]

toggleDevice(id, enabled) ==
  /\ impl = "managers"
  /\ devices' = IF id \in DOMAIN devices
                THEN [devices EXCEPT ![id] = toggled(@, enabled)]
                ELSE devices
  /\ last' = [op |-> "toggle", dev |-> id, enabled |-> enabled,
              status |-> StatusOf(devices, id)]
  /\ UNCHANGED <<impl, pending, now, sent, schedVars, authVars, swarmVars, connVars>>

remove(id) ==
  /\ impl = "managers"
  /\ devices' = MapDelete(devices, id)
  /\ last' = [op |-> "remove", dev |-> id, status |-> StatusOf(devices, id)]
  /\ UNCHANGED <<impl, pending, now, sent, schedVars, authVars, swarmVars, connVars>>

\* A sweep whose offline threshold is reached at 60000 rather than beyond it.
DeviceManager_swept_AtThreshold(devs, time) ==
  LET stays == {id \in DOMAIN devs : ~(time - devs[id].lastHeartbeat > 300000)} IN
  [id \in stays |->
     IF devs[id].status # "DISABLED" /\ time - devs[id].lastHeartbeat >= 60000
     THEN [devs[id] EXCEPT !.status = "OFFLINE"]
     ELSE devs[id]]

\* DeviceManager.cleanup on the registry: a device silent for more than
\* DELETE_THRESHOLD goes, one silent for more than OFFLINE_THRESHOLD and not
\* DISABLED becomes OFFLINE.
DeviceManager_swept(devs, time) ==
  LET stays == {id \in DOMAIN devs : ~(time - devs[id].lastHeartbeat > 300000)} IN
  [id \in stays |->
     IF devs[id].status # "DISABLED" /\ time - devs[id].lastHeartbeat > 60000
     THEN [devs[id] EXCEPT !.status = "OFFLINE"]
     ELSE devs[id]]

\* setInterval(() => this.cleanup(), 5000)
DeviceManager_cleanup ==
  /\ impl = "managers"
  /\ devices' = DeviceManager_swept(devices, now)
  /\ last' = [op |-> "cleanup", before |-> devices]
  /\ UNCHANGED <<impl, pending, now, sent, schedVars, authVars, swarmVars, connVars>>

\* heartbeat
handleHeartbeat(sock) ==
  /\ impl = "durable"
  /\ sock \in sockets
  /\ LET id == sock.persistentId IN
       /\ devices' = IF id \in DOMAIN devices
                     THEN [devices EXCEPT ![id] = heartbeatOn(@, now)]
                     ELSE devices
       /\ last' = [op |-> "heartbeat", dev |-> id, status |-> StatusOf(devices, id)]
  /\ sent' = << >>
  /\ UNCHANGED <<impl, pending, now, schedVars, authVars, swarmVars, connVars>>

\* cmd:toggle_device
handleToggleDevice(sock, id, enabled) ==
  /\ impl = "durable"
  /\ sock \in sockets
  /\ devices' = IF id \in DOMAIN devices
                THEN [devices EXCEPT ![id] = toggled(@, enabled)]
                ELSE devices
  /\ sent' = IF id \in DOMAIN devices
             THEN systemLog(sessions, sockets, IF enabled THEN "SYS" ELSE "WARN",
                            <<"Node", id, IF enabled THEN "enabled" ELSE "disabled">>,
                            "ORCHESTRATOR")
                  \o broadcastState(sessions, sockets, devices', runState, completed,
                                    throttle, jobQueue)
             ELSE << >>
  /\ last' = [op |-> "toggle", dev |-> id, enabled |-> enabled,
              status |-> StatusOf(devices, id)]
  /\ UNCHANGED <<impl, pending, now, schedVars, authVars, swarmVars, connVars>>

\* The close event of a socket: the session kept for its persistentId is
\* deleted, then handleDisconnect marks the device OFFLINE unless DISABLED.
close(sock) ==
  /\ impl = "durable"
  /\ sock \in sockets
  /\ LET id == sock.persistentId
         marks == id \in DOMAIN devices /\ devices[id].status # "DISABLED"
     IN /\ sockets' = sockets \ {sock}
        /\ sessions' = MapDelete(sessions, id)
        /\ devices' = IF marks THEN [devices EXCEPT ![id].status = "OFFLINE"]
                      ELSE devices
        /\ sent' = systemLog(sessions', sockets', "NET", <<"Node offline", id>>, "GATEWAY")
                   \o (IF marks
                       THEN broadcastState(sessions', sockets', devices', runState,
                                           completed, throttle, jobQueue)
                       ELSE << >>)
        /\ last' = [op |-> "close", dev |-> id, socket |-> sock.n,
                    status |-> StatusOf(devices, id)]
  /\ UNCHANGED <<impl, pending, now, schedVars, authVars, swarmVars, nextSocket, alarm>>

\* SwarmCoordinator.cleanup on the device records.
SwarmCoordinator_swept(devs, time) ==
  LET stays == {id \in DOMAIN devs : ~(time - devs[id].lastHeartbeat > 300000)} IN
  [id \in stays |->
     IF devs[id].status # "DISABLED" /\ time - devs[id].lastHeartbeat > 60000
     THEN [devs[id] EXCEPT !.status = "OFFLINE"]
     ELSE devs[id]]

\* alarm: the snapshot, the sweep, the next alarm 2 s ahead.  The alarm runs
\* when its time has come.
alarmHandler ==
  /\ impl = "durable"
  /\ alarm # -1
  /\ now >= alarm
  /\ sent' = broadcastState(sessions, sockets, devices, runState, completed,
                            throttle, jobQueue)
  /\ devices' = SwarmCoordinator_swept(devices, now)
  /\ alarm' = now + 2000
  /\ last' = [op |-> "cleanup", before |-> devices]
  /\ UNCHANGED <<impl, pending, now, schedVars, authVars, swarmVars, sessions, sockets, nextSocket>>

(***************************************************************************)
(* AuthManager (src/managers/AuthManager.ts, lines 1-60) and               *)
(* SwarmCoordinator.handleGenerateToken.  The random code of a token is an *)
(* input.  issued counts, per swarm and time, the tokens handed out so     *)
(* far; bound keeps, per code, the swarm and time of its latest issuance.  *)
(* Neither is read by an operation.                                        *)
(***************************************************************************)
\* 24 * 60 * 60 * 1000
TOKEN_TTL_MS == 86400000

Lookup(map, key, default) == IF key \in DOMAIN map THEN map[key] ELSE default

\* Tokens handed out so far, over all swarms.
Issuances == SumOver(issued, DOMAIN issued)

\* generations.filter(t => t >= oneMinuteAgo)
recentGenerations_Inclusive(generations, time) ==
  LET inWindow(t) == t >= time - 60000 IN SelectSeq(generations, inWindow)

\* generations.filter(t => t > oneMinuteAgo)
recentGenerations(generations, time) ==
  LET inWindow(t) == t > time - 60000 IN SelectSeq(generations, inWindow)

\* The history of issuances after one more for swarmId at time.
noted(history, swarmId, time) ==
  MapSet(history, <<swarmId, time>>, Lookup(history, <<swarmId, time>>, 0) + 1)

generateToken(swarmId, token, budget) ==
  /\ impl = "managers"
  /\ LET generations == recentGenerations(Lookup(tokenGenerationLog, swarmId, << >>), now)
         limited == Len(generations) >= 5
     IN /\ limited \/ Issuances < budget
        /\ tokenGenerationLog' = IF limited THEN tokenGenerationLog
                                 ELSE MapSet(tokenGenerationLog, swarmId, Append(generations, now))
        /\ activeTokens' = IF limited THEN activeTokens
                           ELSE MapSet(activeTokens, token,
                                       [swarmId |-> swarmId, expiresAt |-> now + TOKEN_TTL_MS])
        /\ issued' = IF limited THEN issued ELSE noted(issued, swarmId, now)
        /\ bound' = IF limited THEN bound
                    ELSE MapSet(bound, token, [swarmId |-> swarmId, at |-> now])
        /\ last' = [op |-> "generateToken", swarm |-> swarmId,
                    token |-> IF limited THEN "null" ELSE token]
  /\ UNCHANGED <<impl, pending, now, sent, schedVars, deviceVars, swarmVars, connVars>>

\* Date.now() >= data.expiresAt
expired_AtExpiry(data, time) == time >= data.expiresAt

\* Date.now() > data.expiresAt
expired(data, time) == time > data.expiresAt

validateToken(token) ==
  /\ impl = "managers"
  /\ LET known == token \in DOMAIN activeTokens
         late == known /\ expired(activeTokens[token], now)
     IN /\ activeTokens' = IF late THEN MapDelete(activeTokens, token) ELSE activeTokens
        /\ last' = [op |-> "validateToken", token |-> token, before |-> activeTokens,
                    result |-> IF known /\ ~late THEN activeTokens[token].swarmId
                               ELSE "null"]
  /\ UNCHANGED <<impl, pending, now, sent, tokenGenerationLog, issued, bound,
                 schedVars, deviceVars, swarmVars, connVars>>

\* setInterval(() => this.cleanup(), 30000)
AuthManager_cleanup ==
  /\ impl = "managers"
  /\ activeTokens' = [t \in {c \in DOMAIN activeTokens : ~(now > activeTokens[c].expiresAt)}
                        |-> activeTokens[t]]
  /\ last' = [op |-> "AuthManager.cleanup", before |-> activeTokens]
  /\ UNCHANGED <<impl, pending, now, sent, tokenGenerationLog, issued, bound,
                 schedVars, deviceVars, swarmVars, connVars>>

\* generations.filter(t => t > oneMinuteAgo) in handleGenerateToken
SwarmCoordinator_recent(generations, time) ==
  LET inWindow(t) == t > time - 60000 IN SelectSeq(generations, inWindow)

\* auth:generate_token
handleGenerateToken(sock, token, budget) ==
  /\ impl = "durable"
  /\ sock \in sockets
  /\ LET swarmId == ThisSwarm
         recent == SwarmCoordinator_recent(Lookup(tokenGenerationLog, swarmId, << >>), now)
         limited == Len(recent) >= 5
     IN /\ limited \/ Issuances < budget
        /\ tokenGenerationLog' = IF limited THEN tokenGenerationLog
                                 ELSE MapSet(tokenGenerationLog, swarmId, Append(recent, now))
        /\ activeTokens' = IF limited THEN activeTokens
                           ELSE MapSet(activeTokens, token,
                                       [swarmId |-> swarmId, expiresAt |-> now + 24 * 60 * 60 * 1000])
        /\ sent' = (IF limited
                    THEN systemLog(sessions, sockets, "WARN",
                                   <<"Invite code generation rate limited">>, "AUTH")
                    ELSE systemLog(sessions, sockets, "SYS",
                                   <<"Generated new invite code", token>>, "AUTH"))
                   \o << [to |-> sock.n, event |-> "auth:token",
                          data |-> IF limited THEN "" ELSE token] >>
        /\ issued' = IF limited THEN issued ELSE noted(issued, swarmId, now)
        /\ bound' = IF limited THEN bound
                    ELSE MapSet(bound, token, [swarmId |-> swarmId, at |-> now])
        /\ last' = [op |-> "generateToken", swarm |-> swarmId, socket |-> sock.n,
                    token |-> IF limited THEN "null" ELSE token]
  /\ UNCHANGED <<impl, pending, now, schedVars, deviceVars, swarmVars, connVars>>

(***************************************************************************)
(* The remaining message kinds, DeviceManager.updateScore, and the loss of *)
(* the process.                                                            *)
(***************************************************************************)
\* A set_throttle that stops the swarm when the throttle falls below 100.
handleSetThrottle_Stops(sock, value) ==
  /\ impl = "durable"
  /\ sock \in sockets
  /\ throttle' = value
  /\ runState' = IF value < 100 THEN "STOPPED" ELSE runState
  /\ sent' = toAll(sessions, sockets, "swarm:throttle_sync", value)
             \o broadcastState(sessions, sockets, devices, runState', completed,
                               throttle', jobQueue)
  /\ last' = [op |-> "cmd:set_throttle", dev |-> sock.persistentId, value |-> value]
  /\ UNCHANGED <<impl, pending, now, schedVars, deviceVars, authVars,
                 completed, connVars>>

\* cmd:set_throttle
handleSetThrottle(sock, value) ==
  /\ impl = "durable"
  /\ sock \in sockets
  /\ throttle' = value
  /\ sent' = toAll(sessions, sockets, "swarm:throttle_sync", value)
             \o broadcastState(sessions, sockets, devices, runState, completed,
                               throttle', jobQueue)
  /\ last' = [op |-> "cmd:set_throttle", dev |-> sock.persistentId, value |-> value]
  /\ UNCHANGED <<impl, pending, now, schedVars, deviceVars, authVars, runState,
                 completed, connVars>>

updateScore(id, score) ==
  /\ impl = "managers"
  /\ devices' = IF id \in DOMAIN devices
                THEN [devices EXCEPT ![id].opsScore = score]
                ELSE devices
  /\ last' = [op |-> "updateScore", dev |-> id, status |-> StatusOf(devices, id)]
  /\ UNCHANGED <<impl, pending, now, sent, schedVars, authVars, swarmVars, connVars>>

\* The process is destroyed and created again.  The managers start from
\* their field initialisers; the Durable Object starts from its constructor,
\* which makes a new session Map, over the storage and the alarm it had.
\* The connections of the old process are gone.
restart ==
  /\ IF impl = "managers"
     THEN /\ jobQueue' = << >>
          /\ deviceQuotas' = EmptyMap
          /\ deviceWeights' = EmptyMap
          /\ totalWeight' = 0
          /\ devices' = EmptyMap
          /\ activeTokens' = EmptyMap
          /\ tokenGenerationLog' = EmptyMap
          /\ UNCHANGED <<sessions, sockets>>
     ELSE /\ sessions' = EmptyMap
          /\ sockets' = {}
          /\ UNCHANGED <<jobQueue, deviceQuotas, deviceWeights, totalWeight,
                         devices, activeTokens, tokenGenerationLog>>
  /\ sent' = << >>
  /\ last' = [op |-> "restart"]
  /\ UNCHANGED <<impl, pending, now, nextJob, dispatched, issued, bound, swarmVars,
                 nextSocket, alarm>>

(***************************************************************************)
(* handleJobComplete, storage operation by storage operation.  A handler   *)
(* in pending.handlers stands before the storage operation its pc names    *)
(* and holds the locals of the code; pending.delivered counts the          *)
(* job:complete messages without error that have been delivered.           *)
(***************************************************************************)
\* No event is delivered to the object while a handler has begun and not
\* ended: a handler stands before a storage operation at each of its pcs.
inputGateOpen(p) == DOMAIN p.handlers = {}

\* The least number no handler under way has.
freeHandler(p) ==
  CHOOSE n \in 1..(Cardinality(DOMAIN p.handlers) + 1) :
    /\ n \notin DOMAIN p.handlers
    /\ \A k \in 1..(n - 1) : k \in DOMAIN p.handlers

\* put("swarm:completed", current)
completedAfter_Same(current) == current

\* put("swarm:completed", current + 1)
completedAfter(current) == current + 1

\* The message event of a job:complete: the handler begins, up to its first
\* storage operation.
deliverJobComplete(sock, error, durationMs) ==
  /\ impl = "durable"
  /\ sock \in sockets
  /\ inputGateOpen(pending)
  /\ ~error => pending.delivered < MaxCompleted
  /\ pending' = [handlers |-> MapSet(pending.handlers, freeHandler(pending),
                                     [id |-> sock.persistentId, error |-> error,
                                      durationMs |-> durationMs, pc |-> "quota.get",
                                      quota |-> << >>, current |-> -1, device |-> << >>]),
                 delivered |-> IF error THEN pending.delivered ELSE pending.delivered + 1]
  /\ sent' = << >>
  /\ last' = [op |-> "job:complete delivered", dev |-> sock.persistentId, error |-> error]
  /\ UNCHANGED <<impl, now, schedVars, deviceVars, authVars, swarmVars, connVars>>

\* The handler n after the storage operation at its pc: what it has read,
\* what it has written, and where it stands next ("end" after the broadcast).
afterOperation(h) ==
  LET same == [quotas |-> deviceQuotas, completed |-> completed, devices |-> devices,
               sent |-> << >>, h |-> h]
      afterRelease == IF h.error THEN "broadcast" ELSE "completed.get"
  IN CASE h.pc = "quota.get" ->
            LET found == h.id \in DOMAIN deviceQuotas /\ deviceQuotas[h.id].activeJobs > 0 IN
            [same EXCEPT !.h = IF found
                               THEN [h EXCEPT !.quota = << deviceQuotas[h.id] >>,
                                              !.pc = "quota.put"]
                               ELSE [h EXCEPT !.pc = afterRelease]]
       [] h.pc = "quota.put" ->
            [same EXCEPT !.quotas = MapSet(deviceQuotas, h.id,
                                           releasedQuota(h.quota[1], h.durationMs)),
                         !.h = [h EXCEPT !.pc = afterRelease]]
       [] h.pc = "completed.get" ->
            [same EXCEPT !.h = [h EXCEPT !.current = completed, !.pc = "completed.put"]]
       [] h.pc = "completed.put" ->
            [same EXCEPT !.completed = completedAfter(h.current),
                         !.h = [h EXCEPT !.pc = "device.get"]]
       [] h.pc = "device.get" ->
            [same EXCEPT !.h = IF h.id \in DOMAIN devices
                               THEN [h EXCEPT !.device = << devices[h.id] >>,
                                              !.pc = "device.put"]
                               ELSE [h EXCEPT !.pc = "broadcast"]]
       [] h.pc = "device.put" ->
            [same EXCEPT !.devices = MapSet(devices, h.id,
                                            [h.device[1] EXCEPT !.totalJobsCompleted = @ + 1]),
                         !.h = [h EXCEPT !.pc = "broadcast"]]
       [] h.pc = "broadcast" ->
            [same EXCEPT !.sent = (IF h.error
                                   THEN systemLog(sessions, sockets, "ERR",
                                                  <<"Job failed on", h.id>>, "COMPUTE")
                                   ELSE << >>)
                                  \o broadcastState(sessions, sockets, devices, runState,
                                                    completed, throttle, jobQueue),
                         !.h = [h EXCEPT !.pc = "end"]]

\* One storage operation of the handler n completes and the handler runs on
\* to its next one, or to its end.
stepJobComplete(n) ==
  /\ impl = "durable"
  /\ n \in DOMAIN pending.handlers
  /\ LET h == pending.handlers[n]
         a == afterOperation(h)
     IN /\ h.pc = "quota.put" => AdjustInBounds(releasedQuota(h.quota[1], h.durationMs).weight)
        /\ deviceQuotas' = a.quotas
        /\ completed' = a.completed
        /\ devices' = a.devices
        /\ sent' = a.sent
        /\ pending' = [pending EXCEPT !.handlers = IF a.h.pc = "end"
                                                   THEN MapDelete(pending.handlers, n)
                                                   ELSE MapSet(pending.handlers, n, a.h)]
        /\ last' = [op |-> "job:complete step", dev |-> h.id, pc |-> h.pc]
  /\ UNCHANGED <<impl, now, jobQueue, deviceWeights, totalWeight, nextJob,
                 dispatched, authVars, runState, throttle, connVars>>

(***************************************************************************)
(* Scheduling: the operations on quotas, weights and the queue, with the   *)
(* inputs drawn from the sets given.                                       *)
(***************************************************************************)
AllStress == [i \in 1..GenBatch |-> "MATH_STRESS"]
AllMatMul == [i \in 1..GenBatch |-> "MAT_MUL"]
Alternating == [i \in 1..GenBatch |-> IF i % 2 = 1 THEN "MATH_STRESS" ELSE "MAT_MUL"]

NextScheduling(infos, rcs, durs, errors, patterns, budget) ==
  \/ \E types \in patterns : generateJobs(types, budget)
  \/ \E device \in infos : registerDevice(device)
  \/ \E device \in infos, rc \in rcs : getJobBatchForDevice(device, rc)
  \/ \E device \in infos, ms \in durs : releaseJobSlot(device.id, ms)
  \/ \E device \in infos : device.id \notin DOMAIN sessions /\ fetch(device.id)
  \/ \E sock \in sockets, device \in infos :
       sock.persistentId = device.id /\ handleRegister(sock, device.capabilities)
  \/ \E sock \in sockets, device \in infos :
       sock.persistentId = device.id /\ handleBenchmarkResult(sock, device.opsScore)
  \/ \E sock \in sockets : handleSetState(sock, "RUNNING")
  \/ \E sock \in sockets, types \in patterns : handleJobRequest(sock, types, budget)
  \/ \E sock \in sockets, error \in errors, ms \in durs :
       handleJobComplete(sock, error, ms)

\* Quotas: one device that changes its cores, one that does not; jobs of one
\* type; completions that report an error (the completed counters are no
\* part of the quota).
QuotaInfos ==
  { [id |-> "d1", capabilities |-> c, opsScore |-> 0] :
      c \in { [cpuCores |-> 4, gpuAvailable |-> FALSE],
              [cpuCores |-> 2, gpuAvailable |-> FALSE] } }
  \cup { [id |-> "d2", capabilities |-> [cpuCores |-> 4, gpuAvailable |-> FALSE],
          opsScore |-> 0] }

NextQuota ==
  NextScheduling(QuotaInfos, RequestedCounts, {0}, {TRUE}, {AllStress}, MaxJobs)

SpecQuota == Init /\ [][NextQuota]_vars

\* C1: every quota record has 0 <= activeJobs <= maxConcurrent, in every state
\* reached by registrations (also with other cpuCores), batch requests and
\* slot releases.
C1_QuotaWithinBounds ==
  \A d \in DOMAIN deviceQuotas :
    /\ 0 <= deviceQuotas[d].activeJobs
    /\ deviceQuotas[d].activeJobs <= deviceQuotas[d].maxConcurrent

\* A batch request that filled the device's last free slots.
C1_Witness ==
  /\ last.op = "getJobBatch"
  /\ Len(last.batch) > 0
  /\ last.active > 0
  /\ deviceQuotas[last.dev].activeJobs = deviceQuotas[last.dev].maxConcurrent


MaxQueueLen == 3
\* Job identifiers a run of the selection may use.
MaxSelectJobs == 6

QueueOf(types) == [i \in 1..Len(types) |-> [id |-> i, type |-> types[i]]]

InitialQueues ==
  UNION { {QueueOf(types) : types \in [1..n -> JobTypes]} : n \in 0..MaxQueueLen }

InitSelect ==
  /\ impl \in {"managers", "durable"}
  /\ jobQueue \in InitialQueues
  /\ nextJob = Len(jobQueue) + 1
  /\ InitState

\* A device without a GPU and one with a GPU, which holds less than two
\* thirds of the two devices' weight with 2 cores and more with 4.
SelectInfos ==
  { [id |-> "d1", capabilities |-> [cpuCores |-> 4, gpuAvailable |-> FALSE],
     opsScore |-> 0] }
  \cup { [id |-> "d2", capabilities |-> [cpuCores |-> c, gpuAvailable |-> TRUE],
          opsScore |-> 0] : c \in {2, 4} }

NextSelect ==
  NextScheduling(SelectInfos, RequestedCounts, {0}, {TRUE}, {Alternating}, MaxSelectJobs)

SpecSelect == InitSelect /\ [][NextSelect]_vars

TypesOf(queue) == [i \in 1..Len(queue) |-> queue[i].type]

\* The jobs of the queue in the order the selection policy takes them: those
\* of the preferred type in queue order, then the others in queue order.
InPolicyOrder(queue, preferred) ==
  LET IsPreferred(j) == j.type = preferred
      IsOther(j) == j.type # preferred
  IN SelectSeq(queue, IsPreferred) \o SelectSeq(queue, IsOther)

Without(queue, ids) ==
  LET Stays(j) == j.id \notin ids IN SelectSeq(queue, Stays)

\* The rule of C3: the batch is a prefix of the queue in policy order, and the
\* queue keeps the other jobs in their order.
SelectionRule ==
  last.op = "getJobBatch" =>
    LET preferred == IF last.gpu THEN "MAT_MUL" ELSE "MATH_STRESS"
        order == InPolicyOrder(last.queue, preferred)
    IN /\ Len(last.batch) <= Len(order)
       /\ last.batch = SubSeq(order, 1, Len(last.batch))
       /\ jobQueue = Without(last.queue, JobIds(last.batch))

\* The queue [stress A, matmul B] met by a request of a device with a free slot.
MeetsExample ==
  /\ last.op = "getJobBatch"
  /\ TypesOf(last.queue) = <<"MATH_STRESS", "MAT_MUL">>
  /\ last.slots > 0

\* C3 as claimed: each job removed is the first queued job of the device's
\* preferred type if there is one, else the oldest job; and on the queue
\* [stress A, matmul B] a GPU device requesting 1 gets [B], a device without
\* GPU requesting 1 gets [A].
C3_AsClaimed ==
  /\ SelectionRule
  /\ MeetsExample /\ last.requested = 1 =>
       last.batch = IF last.gpu THEN << last.queue[2] >> ELSE << last.queue[1] >>

\* C3 as amended: the rule; and on the queue [stress A, matmul B] a GPU device
\* gets B first and a device without GPU gets A first, and gets the other job
\* too unless its share or its free slots are 1.
C3_PreferredFirst ==
  /\ SelectionRule
  /\ MeetsExample =>
       /\ last.batch[1] = IF last.gpu THEN last.queue[2] ELSE last.queue[1]
       /\ Len(last.batch) = Min(2, Min(last.share, last.slots))

\* A GPU device requesting 1 of [stress A, matmul B] got [B, A].
C3_Witness ==
  /\ MeetsExample
  /\ last.requested = 1
  /\ last.gpu
  /\ last.batch = << last.queue[2], last.queue[1] >>


(***************************************************************************)
(* Weights: registrations with every capability and score, and requests.   *)
(***************************************************************************)
WeightScores == {0, 1000, 250000}

WeightInfos ==
  { [id |-> d, capabilities |-> c, opsScore |-> sc] :
      d \in DeviceIds, c \in CapsSet, sc \in WeightScores }

NextWeights ==
  NextScheduling(WeightInfos, {10}, {0}, {TRUE}, {AllStress}, GenBatch)

SpecWeights == Init /\ [][NextWeights]_vars

\* The sum of the weights the registered devices' quota records were given.
SumOfRegisteredWeights ==
  SumOver([d \in DOMAIN deviceQuotas |-> deviceQuotas[d].weight.base],
          DOMAIN deviceQuotas)

\* C4: after registrations (also repeated, with other capabilities or score)
\* and batch requests (also of a device not yet registered), the total weight
\* the scheduler keeps, and the total a share is computed with, is the sum of
\* the registered devices' weights, each device counted once.
C4_TotalWeight ==
  /\ DOMAIN deviceWeights = DOMAIN deviceQuotas
  /\ \A d \in DOMAIN deviceWeights : deviceWeights[d] = deviceQuotas[d].weight.base
  /\ impl = "managers" => totalWeight = SumOfRegisteredWeights
  /\ last.op = "getJobBatch" => last.total = SumOfRegisteredWeights

\* A request registered a device the scheduler did not know, beside another.
C4_Witness ==
  /\ last.op = "getJobBatch"
  /\ ~last.known
  /\ Cardinality(DOMAIN deviceQuotas) = 2
  /\ totalWeight > deviceWeights[last.dev]


(***************************************************************************)
(* End to end: device D (d1: 4 cores, no GPU, score 0) asks for a batch    *)
(* while the queue holds 50 MATH_STRESS and 50 MAT_MUL jobs, in blocks of  *)
(* one type; a second device may be registered beside it.                  *)
(***************************************************************************)
BlockSizes == {1, 2, 5, 10, 25, 50}

BlockQueue(size, first) ==
  [i \in 1..100 |->
     [id |-> i,
      type |-> IF ((i - 1) \div size) % 2 = 0 THEN first
               ELSE CHOOSE t \in JobTypes : t # first]]

DeviceD == [id |-> "d1", capabilities |-> [cpuCores |-> 4, gpuAvailable |-> FALSE],
            opsScore |-> 0]

EndToEndInfos ==
  {DeviceD} \cup { [id |-> "d2", capabilities |-> c, opsScore |-> 0] : c \in CapsSet }

InitEndToEnd ==
  /\ impl \in {"managers", "durable"}
  /\ jobQueue \in {BlockQueue(size, first) : size \in BlockSizes, first \in JobTypes}
  /\ nextJob = 101
  /\ InitState

NextEndToEnd ==
  \/ \E device \in EndToEndInfos : registerDevice(device)
  \/ Len(jobQueue) = 100 /\ getJobBatchForDevice(DeviceD, 10)
  \/ \E device \in EndToEndInfos : device.id \notin DOMAIN sessions /\ fetch(device.id)
  \/ \E sock \in sockets, device \in EndToEndInfos :
       sock.persistentId = device.id /\ handleRegister(sock, device.capabilities)
  \/ \E sock \in sockets, state \in {"RUNNING", "PAUSED"} : handleSetState(sock, state)
  \/ \E sock \in sockets :
       /\ sock.persistentId = "d1"
       /\ Len(jobQueue) = 100
       /\ handleJobRequest(sock, AllStress, 100)

SpecEndToEnd == InitEndToEnd /\ [][NextEndToEnd]_vars

\* D's request was served.
ServedD == last.op = "getJobBatch" /\ last.dev = "d1"

OnlyStress(batch) == \A i \in 1..Len(batch) : batch[i].type = "MATH_STRESS"

HealthTimes == {0, 60000, 300000, 360000}
HealthCaps == {[cpuCores |-> 4, gpuAvailable |-> FALSE]}

NextHealth ==
  \/ \E to \in HealthTimes : Advance(to)
  \/ \E id \in DeviceIds, caps \in HealthCaps : DeviceManager_register(id, caps)
  \/ \E id \in DeviceIds : DeviceManager_heartbeat(id)
  \/ \E id \in DeviceIds, enabled \in BOOLEAN : toggleDevice(id, enabled)
  \/ \E id \in DeviceIds : remove(id)
  \/ DeviceManager_cleanup
  \/ \E id \in DeviceIds : id \notin DOMAIN sessions /\ fetch(id)
  \/ \E sock \in sockets, caps \in HealthCaps : handleRegister(sock, caps)
  \/ \E sock \in sockets : handleHeartbeat(sock)
  \/ \E sock \in sockets, id \in DeviceIds, enabled \in BOOLEAN :
       handleToggleDevice(sock, id, enabled)
  \/ \E sock \in sockets : close(sock)
  \/ alarmHandler

SpecHealth == Init /\ [][NextHealth]_vars

\* What a sweep at time t must leave of a device record.
SweepOutcome(device, t) ==
  IF t - device.lastHeartbeat > 300000 THEN "removed"
  ELSE IF t - device.lastHeartbeat > 60000 /\ device.status # "DISABLED" THEN "offline"
  ELSE "unchanged"

\* C6: a sweep at time now removes every device with now - lastHeartbeat >
\* 300000, sets to OFFLINE every remaining device with now - lastHeartbeat >
\* 60000 whose status is not DISABLED, and leaves every other device as it was.
C6_Sweep ==
  last.op = "cleanup" =>
    /\ DOMAIN devices \subseteq DOMAIN last.before
    /\ \A id \in DOMAIN last.before :
         LET was == last.before[id]
             outcome == SweepOutcome(was, now)
         IN /\ outcome = "removed" => id \notin DOMAIN devices
            /\ outcome = "offline" =>
                 id \in DOMAIN devices /\ devices[id] = [was EXCEPT !.status = "OFFLINE"]
            /\ outcome = "unchanged" => id \in DOMAIN devices /\ devices[id] = was

\* One sweep has removed a device and has set another, ONLINE until then and
\* silent for exactly the delete threshold, to OFFLINE.
C6_Witness ==
  /\ last.op = "cleanup"
  /\ \E a, b \in DOMAIN last.before :
       /\ SweepOutcome(last.before[a], now) = "removed"
       /\ a \notin DOMAIN devices
       /\ last.before[b].status = "ONLINE"
       /\ now - last.before[b].lastHeartbeat = 300000
       /\ b \in DOMAIN devices
       /\ devices[b].status = "OFFLINE"

\* C7: a device that is DISABLED stays DISABLED across a heartbeat, a sweep
\* that does not remove it, and the closing of its connection.
C7_DisabledKept ==
  [][\A id \in DOMAIN devices :
       (/\ devices[id].status = "DISABLED"
        /\ id \in DOMAIN devices'
        /\ \/ last'.op = "cleanup"
           \/ last'.op \in {"heartbeat", "close"} /\ last'.dev = id)
       => devices'[id].status = "DISABLED"]_vars

\* A sweep has just passed over a DISABLED device that was silent for more
\* than the offline threshold, and has passed over it before: it has been
\* heard of last when the clock showed 0.
C7_Witness ==
  /\ last.op = "cleanup"
  /\ \E id \in DOMAIN devices :
       /\ id \in DOMAIN last.before
       /\ last.before[id].status = "DISABLED"
       /\ devices[id].status = "DISABLED"
       /\ now - devices[id].lastHeartbeat = 300000

\* C8 as the specification states it: over all message kinds, a device that
\* is DISABLED and still present afterwards has left DISABLED only by a toggle
\* with enabled = true for that device.
C8_AsClaimed ==
  [][\A id \in DOMAIN devices :
       (/\ devices[id].status = "DISABLED"
        /\ id \in DOMAIN devices'
        /\ devices'[id].status # "DISABLED")
       => (last'.op = "toggle" /\ last'.dev = id /\ last'.enabled)]_vars

(***************************************************************************)
(* Token issuance under the rate limit.                                    *)
(***************************************************************************)
MaxIssued == 7
IssueTimes == {0, 30000, 60000, 90000}
IssueCodes == {"T1"}

NextIssue ==
  \/ \E to \in IssueTimes : Advance(to)
  \/ \E swarmId \in SwarmIds, token \in IssueCodes : generateToken(swarmId, token, MaxIssued)
  \/ fetch("d1") /\ "d1" \notin DOMAIN sessions
  \/ \E sock \in sockets, token \in IssueCodes : handleGenerateToken(sock, token, MaxIssued)
  \/ alarmHandler

SpecIssue == Init /\ [][NextIssue]_vars

\* The issuances for swarmId that a call at time has within its window.
InWindow(history, swarmId, time) ==
  SumOver(history, {k \in DOMAIN history : k[1] = swarmId /\ k[2] > time - 60000})

\* The history before the issue call that has just returned.
PriorIssued ==
  IF last.token = "null" THEN issued
  ELSE [issued EXCEPT ![<<last.swarm, now>>] = @ - 1]

\* C9: an issue call for swarm S returns no token exactly when 5 or more
\* tokens have been issued for S within the 60 seconds before it (so the first
\* 5 calls within 60 s return a token, a 6th does not, and a call made after
\* the earlier issuances have left the window returns a token again);
\* issuances for another swarm are not counted.
C9_RateLimit ==
  last.op = "generateToken" =>
    (last.token = "null" <=> InWindow(PriorIssued, last.swarm, now) >= 5)

\* A call for S has been refused with five issuances for S in its window, at
\* more than one time, while S has issued more than five tokens in all.
C9_Witness ==
  /\ last.op = "generateToken"
  /\ last.token = "null"
  /\ InWindow(issued, last.swarm, now) = 5
  /\ Cardinality({k \in DOMAIN issued : k[1] = last.swarm /\ k[2] > now - 60000}) > 1
  /\ SumOver(issued, {k \in DOMAIN issued : k[1] = last.swarm}) > 5

(***************************************************************************)
(* Token validation and expiry.                                            *)
(***************************************************************************)
MaxBindings == 3
ValidateTimes == {0, 60000, TOKEN_TTL_MS, TOKEN_TTL_MS + 60000}
TokenCodes == {"T1", "T2"}

NextValidate ==
  \/ \E to \in ValidateTimes : Advance(to)
  \/ \E swarmId \in SwarmIds, token \in TokenCodes : generateToken(swarmId, token, MaxBindings)
  \/ \E token \in TokenCodes : validateToken(token)
  \/ AuthManager_cleanup
  \/ fetch("d1") /\ "d1" \notin DOMAIN sessions
  \/ \E sock \in sockets, token \in TokenCodes : handleGenerateToken(sock, token, MaxBindings)
  \/ alarmHandler

SpecValidate == Init /\ [][NextValidate]_vars

\* C10: validate of a token returns the swarm of the token's latest issuance
\* while now is not past issue time + 24 h; past that it fails and the binding
\* is gone (so that every later validate fails as well); validate of a token
\* never issued fails and changes nothing.
C10_Validate ==
  last.op = "validateToken" =>
    IF last.token \notin DOMAIN bound
    THEN last.result = "null" /\ activeTokens = last.before
    ELSE IF now <= bound[last.token].at + TOKEN_TTL_MS
    THEN last.result = bound[last.token].swarmId /\ activeTokens = last.before
    ELSE last.result = "null" /\ last.token \notin DOMAIN activeTokens

\* validate has just failed on a token that was still bound, issued 24 h and
\* one minute ago, and has removed the binding.
C10_Witness ==
  /\ last.op = "validateToken"
  /\ last.result = "null"
  /\ last.token \in DOMAIN last.before
  /\ last.token \notin DOMAIN activeTokens
  /\ now = bound[last.token].at + TOKEN_TTL_MS + 60000

(***************************************************************************)
(* Snapshots: what the Durable Object broadcasts under run states,         *)
(* throttles and scores.                                                   *)
(***************************************************************************)
InitDurable == Init /\ impl = "durable"

SnapshotScores == {0, 333}
ThrottleValues == {0, 50}
RunStates == {"RUNNING", "PAUSED"}
SnapshotTimes == {2000}

NextSnapshot ==
  \/ \E to \in SnapshotTimes : Advance(to)
  \/ \E id \in DeviceIds : id \notin DOMAIN sessions /\ fetch(id)
  \/ \E sock \in sockets, caps \in HealthCaps : handleRegister(sock, caps)
  \/ \E sock \in sockets, score \in SnapshotScores : handleBenchmarkResult(sock, score)
  \/ \E sock \in sockets, state \in RunStates : handleSetState(sock, state)
  \/ \E sock \in sockets, value \in ThrottleValues : handleSetThrottle(sock, value)
  \/ \E sock \in sockets, id \in DeviceIds, enabled \in BOOLEAN :
       handleToggleDevice(sock, id, enabled)
  \/ alarmHandler

SpecSnapshot == InitDurable /\ [][NextSnapshot]_vars

\* The snapshots among the messages of the last step.
Snapshots == {sent[i].data : i \in {j \in DOMAIN sent : sent[j].event = "swarm:snapshot"}}

\* The scores of the devices that are neither OFFLINE nor DISABLED, summed.
OnlineScore == SumOver([d \in Counted(devices) |-> devices[d].opsScore], Counted(devices))

\* C11: in every snapshot that is broadcast, globalVelocity and activeJobs
\* are 0 whenever the stored run state is not RUNNING (also when none was ever
\* stored), whatever the online devices' scores and the throttle are.
C11_IdleSnapshot ==
  runState # "RUNNING" =>
    \A snap \in Snapshots :
      /\ snap.runState # "RUNNING"
      /\ snap.stats.globalVelocity = 0
      /\ snap.stats.activeJobs = 0

\* A snapshot goes out while the swarm is paused, the throttle is 50 and the
\* devices that count as online have a positive score.
C11_Witness ==
  /\ runState = "PAUSED"
  /\ throttle = 50
  /\ OnlineScore > 0
  /\ Snapshots # {}

\* C18 as the specification states it: once a throttle v has been set, every
\* snapshot reports globalThrottle = v and, while RUNNING, globalVelocity =
\* round(online score * v / 100); v = 0 gives 0 and 0.
C18_AsClaimed ==
  throttle # -1 =>
    \A snap \in Snapshots :
      /\ snap.stats.globalThrottle = throttle
      /\ runState = "RUNNING" =>
           snap.stats.globalVelocity = (2 * OnlineScore * throttle + 100) \div 200

(***************************************************************************)
(* Loss of the process between two operations.                             *)
(***************************************************************************)
RestartInfos == {[id |-> "d1", capabilities |-> [cpuCores |-> 4, gpuAvailable |-> FALSE],
                  opsScore |-> 0]}

NextRestart ==
  \/ generateJobs(AllStress, GenBatch)
  \/ \E device \in RestartInfos : registerDevice(device)
  \/ \E id \in DeviceIds, caps \in HealthCaps : DeviceManager_register(id, caps)
  \/ \E swarmId \in SwarmIds, token \in TokenCodes : generateToken(swarmId, token, MaxBindings)
  \/ \E id \in DeviceIds : id \notin DOMAIN sessions /\ fetch(id)
  \/ \E sock \in sockets, caps \in HealthCaps : handleRegister(sock, caps)
  \/ \E sock \in sockets, state \in RunStates : handleSetState(sock, state)
  \/ \E sock \in sockets : handleSetThrottle(sock, 50)
  \/ \E sock \in sockets : handleJobRequest(sock, AllStress, GenBatch)
  \/ \E sock \in sockets, token \in TokenCodes : handleGenerateToken(sock, token, MaxBindings)
  \/ restart

SpecRestart == Init /\ [][NextRestart]_vars

\* C12 as the specification states it: after the process has been destroyed
\* and created again the session table is empty, and device records, quota
\* records, scheduler weights, the job queue, run state, throttle, completed
\* counter, token bindings and issuance history are what they were before.
C12_AsClaimed ==
  [][last'.op = "restart" =>
       /\ sessions' = EmptyMap
       /\ devices' = devices
       /\ deviceQuotas' = deviceQuotas
       /\ deviceWeights' = deviceWeights
       /\ jobQueue' = jobQueue
       /\ runState' = runState
       /\ throttle' = throttle
       /\ completed' = completed
       /\ activeTokens' = activeTokens
       /\ tokenGenerationLog' = tokenGenerationLog]_vars

(***************************************************************************)
(* Job completions, one storage operation at a time.                       *)
(***************************************************************************)
NextInterleave ==
  \/ \E id \in DeviceIds :
       id \notin DOMAIN sessions /\ inputGateOpen(pending) /\ fetch(id)
  \/ \E sock \in sockets, caps \in HealthCaps :
       inputGateOpen(pending) /\ handleRegister(sock, caps)
  \/ \E sock \in sockets : inputGateOpen(pending) /\ handleSetState(sock, "RUNNING")
  \/ \E sock \in sockets :
       inputGateOpen(pending) /\ handleJobRequest(sock, AllStress, GenBatch)
  \/ \E sock \in sockets, error \in BOOLEAN : deliverJobComplete(sock, error, 0)
  \/ \E n \in DOMAIN pending.handlers : stepJobComplete(n)

SpecInterleave == InitDurable /\ [][NextInterleave]_vars

\* The handlers of error-free messages that have not yet written the counter.
BeforeWrite ==
  {n \in DOMAIN pending.handlers :
     /\ ~pending.handlers[n].error
     /\ pending.handlers[n].pc \in {"quota.get", "quota.put", "completed.get", "completed.put"}}

MessageTimes == {2000}
MessageJobs == 3
\* The device that connects; messages may name the other one as well.
MessageIds == {"d1"}

NextMessages ==
  \/ \E to \in MessageTimes : Advance(to)
  \/ \E id \in MessageIds : id \notin DOMAIN sessions /\ fetch(id)
  \/ \E sock \in sockets, caps \in HealthCaps : handleRegister(sock, caps)
  \/ \E sock \in sockets : handleHeartbeat(sock)
  \/ \E sock \in sockets : handleJobRequest(sock, AllStress, MessageJobs)
  \/ \E sock \in sockets, error \in BOOLEAN : handleJobComplete(sock, error, 0)
  \/ \E sock \in sockets : handleSetState(sock, "RUNNING")
  \/ \E sock \in sockets : handleSetThrottle(sock, 50)
  \/ \E sock \in sockets : handleBenchmarkResult(sock, 0)
  \/ \E sock \in sockets, id \in DeviceIds, enabled \in BOOLEAN :
       handleToggleDevice(sock, id, enabled)
  \/ \E sock \in sockets, token \in IssueCodes : handleGenerateToken(sock, token, 1)
  \/ \E sock \in sockets : close(sock)
  \/ alarmHandler

SpecMessages == InitDurable /\ [][NextMessages]_vars

\* C14 as the specification states it: a heartbeat, job-complete or
\* toggle-device message for a device identifier without a record changes no
\* device record, no quota record, not the queue, not the run state and not
\* the completed counter.
C14_AsClaimed ==
  [][(/\ last'.op \in {"heartbeat", "job:complete", "toggle"}
      /\ last'.dev \notin DOMAIN devices)
     => /\ devices' = devices
        /\ deviceQuotas' = deviceQuotas
        /\ jobQueue' = jobQueue
        /\ runState' = runState
        /\ completed' = completed]_vars

\* C17: the stored run state changes only in the step that handles a
\* set-run-state message: every other message kind, the opening and the
\* closing of a connection and the alarm leave it as it is.
C17_RunStateFrame ==
  [][runState' # runState => last'.op = "cmd:set_run_state"]_vars

\* The alarm has run, after a completed job and a throttle change, with the
\* swarm still RUNNING.
C17_Witness ==
  /\ runState = "RUNNING"
  /\ last.op = "cleanup"
  /\ completed > 0
  /\ throttle = 50

(***************************************************************************)
(* Job requests from two devices whose connections open, are replaced and  *)
(* close.                                                                  *)
(***************************************************************************)
NextRequest ==
  \/ \E id \in DeviceIds : fetch(id)
  \/ \E sock \in sockets, caps \in HealthCaps : handleRegister(sock, caps)
  \/ \E sock \in sockets, state \in RunStates : handleSetState(sock, state)
  \/ \E sock \in sockets : handleJobRequest(sock, AllStress, GenBatch)
  \/ \E sock \in sockets : close(sock)

SpecRequest == InitDurable /\ [][NextRequest]_vars

\* The job:batch messages of the last step.
Batches(messages) == {i \in DOMAIN messages : messages[i].event = "job:batch"}

\* C15: a job-request handled while the run state is not RUNNING (or was
\* never set) or while the requesting device is OFFLINE leaves the queue and
\* every quota as they were and sends no job-batch; a job-batch is never
\* empty and goes to the session of the requesting device only.
C15_RequestGuard ==
  [][/\ (/\ last'.op \in {"job:request_batch", "getJobBatch"}
         /\ \/ runState # "RUNNING"
            \/ StatusOf(devices, last'.dev) = "OFFLINE")
        => /\ jobQueue' = jobQueue
           /\ deviceQuotas' = deviceQuotas
           /\ Batches(sent') = {}
     /\ \A i \in Batches(sent') :
          /\ last'.op = "getJobBatch"
          /\ sent'[i].data # << >>
          /\ last'.dev \in DOMAIN sessions'
          /\ sent'[i].to = sessions'[last'.dev]]_vars

\* A request of an OFFLINE device has just been passed over while the swarm
\* is RUNNING, jobs are out and another device is connected.
C15_Witness ==
  /\ last.op = "job:request_batch"
  /\ runState = "RUNNING"
  /\ StatusOf(devices, last.dev) = "OFFLINE"
  /\ \E id \in DOMAIN deviceQuotas : deviceQuotas[id].activeJobs > 0
  /\ \E id \in DOMAIN sessions : id # last.dev

\* C16 as the specification states it: a device's activeJobs goes down only
\* when a job completion releases a slot; registering a device that has a
\* quota (by device-register or benchmark-result) keeps its activeJobs.
C16_AsClaimed ==
  [][\A id \in DOMAIN deviceQuotas \cap DOMAIN deviceQuotas' :
       /\ deviceQuotas'[id].activeJobs < deviceQuotas[id].activeJobs
            => last'.op \in {"job:complete", "releaseJobSlot"}
       /\ last'.op \in {"registerDevice", "device:register", "benchmark:result"}
            => deviceQuotas'[id].activeJobs = deviceQuotas[id].activeJobs]_vars

\* The sessions a broadcast reaches.
OpenSessions == {sessions[id] : id \in {d \in DOMAIN sessions :
                                          [persistentId |-> d, n |-> sessions[d]] \in sockets}}

\* The last step has sent a snapshot to every open session.
SnapshotBroadcast ==
  \A n \in OpenSessions :
    \E i \in DOMAIN sent : sent[i].event = "swarm:snapshot" /\ sent[i].to = n

\* C19 as the specification states it: the handling of a message that
\* changes visible state ends with a snapshot broadcast; so does a heartbeat
\* that brings a device from OFFLINE (or REGISTERED) to ONLINE, as a
\* registration and an enable or disable do.
C19_AsClaimed ==
  (/\ impl = "durable"
   /\ \/ last.op = "device:register"
      \/ last.op = "toggle" /\ last.status # "NONE"
      \/ last.op = "heartbeat" /\ last.status \in {"OFFLINE", "REGISTERED"})
  => SnapshotBroadcast

(***************************************************************************)
(* Token requests while other sessions are open.                           *)
(***************************************************************************)
NextTokenReply ==
  \/ \E id \in DeviceIds : id \notin DOMAIN sessions /\ fetch(id)
  \/ \E sock \in sockets, token \in TokenCodes :
       handleGenerateToken(sock, token, MaxIssued)
  \/ \E sock \in sockets : close(sock)

SpecTokenReply == InitDurable /\ [][NextTokenReply]_vars

\* The message carries the code: as the token reply, or in the text of a log
\* line.
Mentions(message, code) ==
  \/ message.event = "auth:token" /\ message.data = code
  \/ /\ message.event = "sys:log"
     /\ \E j \in DOMAIN message.data.message : message.data.message[j] = code

\* C20 as the specification states it: the code of an issued token goes to
\* the requesting connection only; no message to another session carries it.
C20_AsClaimed ==
  (impl = "durable" /\ last.op = "generateToken" /\ last.token # "null") =>
    \A i \in DOMAIN sent :
      sent[i].to # last.socket => ~Mentions(sent[i], last.token)

\* C21 as the specification states it: a run of the tick broadcasts a
\* snapshot, sweeps the devices, tops up the job queue (an empty queue is not
\* empty afterwards) and ends with the next alarm 2 seconds ahead.
C21_AsClaimed ==
  [][(impl = "durable" /\ last'.op = "cleanup") =>
       /\ alarm' = now' + 2000
       /\ \A n \in OpenSessions :
            \E i \in DOMAIN sent' : sent'[i].event = "swarm:snapshot" /\ sent'[i].to = n
       /\ devices' = SwarmCoordinator_swept(devices, now)
       /\ jobQueue = << >> => jobQueue' # << >>]_vars

(***************************************************************************)
(* The queue at its ceiling.  JobScheduler has generated on its timer      *)
(* until the queue holds about 5000 jobs (the queue of the Durable Object, *)
(* which generates on an empty queue only, starts empty).                  *)
(***************************************************************************)
CeilingStarts == {4998, 4999, 5000}
CeilingIds == 5000 + 4 * GenBatch

InitCeiling ==
  /\ InitState
  /\ \/ /\ impl = "managers"
        /\ \E len \in CeilingStarts :
             jobQueue = [i \in 1..len |-> [id |-> i, type |-> "MATH_STRESS"]]
        /\ nextJob = Len(jobQueue) + 1
     \/ /\ impl = "durable"
        /\ jobQueue = << >>
        /\ nextJob = 1

NextCeiling ==
  \/ generateJobs(AllStress, CeilingIds)
  \/ getJobBatchForDevice(DeviceD, 1)
  \/ "d1" \notin DOMAIN sessions /\ fetch("d1")
  \/ \E sock \in sockets, caps \in HealthCaps : handleRegister(sock, caps)
  \/ \E sock \in sockets : handleSetState(sock, "RUNNING")
  \/ \E sock \in sockets : handleJobRequest(sock, AllStress, 2 * GenBatch)

SpecCeiling == InitCeiling /\ [][NextCeiling]_vars

\* C22: a job generation that finds more than 5000 jobs in the queue adds
\* none, and the queue never holds more than 5000 jobs plus one generation
\* batch, however generations and batch requests follow one another.
C22_QueueCeiling ==
  [][/\ Len(jobQueue') <= 5000 + GenBatch
     /\ (last'.op = "generateJobs" /\ Len(jobQueue) > 5000) => jobQueue' = jobQueue]_vars

\* A generation has run on a queue of 5000 jobs or more, which now holds
\* 5000 jobs and a whole batch.
C22_Witness ==
  /\ last.op = "generateJobs"
  /\ Len(jobQueue) = 5000 + GenBatch

\* C23 as the specification states it: the Durable Object holds a quota
\* record and a weight entry for exactly the devices that have a record, so
\* that the total weight of a share is the sum over the known devices.
C23_AsClaimed ==
  impl = "durable" =>
    /\ DOMAIN deviceQuotas = DOMAIN devices
    /\ DOMAIN deviceWeights = DOMAIN devices

\* C24 as the specification states it: when the connection that closes is
\* not the one the session table holds for its device identifier (the device
\* has connected again and registered), the close leaves the session table
\* and the device's status as they were.
C24_AsClaimed ==
  [][(/\ last'.op = "close"
      /\ last'.dev \in DOMAIN sessions
      /\ sessions[last'.dev] # last'.socket
      /\ last'.dev \in DOMAIN devices)
     => /\ sessions' = sessions
        /\ devices'[last'.dev].status = devices[last'.dev].status]_vars

\* C25 as the specification states it: a job-request from a device whose
\* status is DISABLED hands out no job, does not raise the device's
\* activeJobs and sends no job-batch.
C25_AsClaimed ==
  [][(/\ impl = "durable"
      /\ last'.op \in {"job:request_batch", "getJobBatch"}
      /\ StatusOf(devices, last'.dev) = "DISABLED")
     => /\ dispatched' = dispatched
        /\ deviceQuotas' = deviceQuotas
        /\ Batches(sent') = {}]_vars

(***************************************************************************)
(* Releases of job slots with and without a reported duration.             *)
(***************************************************************************)
ReleaseInfos ==
  { [id |-> id, capabilities |-> [cpuCores |-> 4, gpuAvailable |-> FALSE], opsScore |-> 0] :
      id \in DeviceIds }

NextRelease ==
  NextScheduling(ReleaseInfos, {10}, Durations, {TRUE}, {AllStress}, 2 * GenBatch)

SpecRelease == Init /\ [][NextRelease]_vars

\* The quota weight after a release that reports durationMs.
ScaledWeight(w, durationMs) ==
  IF durationMs > 2000 THEN [base |-> w.base, slow |-> w.slow + 1, fast |-> w.fast]
  ELSE IF durationMs > 0 THEN [base |-> w.base, slow |-> w.slow, fast |-> w.fast + 1]
  ELSE w

\* C26: a release for a device changes at most that device's quota:
\* activeJobs goes down by one and the quota weight is scaled by 0.95 for a
\* duration above 2000 ms and by 1.02 for one in 1..2000; the total weight,
\* the weights the shares are computed from, the other quotas and the queue
\* stay, and a release for a device with activeJobs = 0 or without a quota
\* changes nothing of them.
C26_ReleaseFrame ==
  [][last'.op \in {"releaseJobSlot", "job:complete"} =>
       LET id == last'.dev
           held == id \in DOMAIN deviceQuotas /\ deviceQuotas[id].activeJobs > 0
       IN /\ jobQueue' = jobQueue
          /\ totalWeight' = totalWeight
          /\ deviceWeights' = deviceWeights
          /\ DOMAIN deviceQuotas' = DOMAIN deviceQuotas
          /\ \A other \in DOMAIN deviceQuotas \ {id} :
               deviceQuotas'[other] = deviceQuotas[other]
          /\ ~held => deviceQuotas' = deviceQuotas
          /\ held =>
               /\ deviceQuotas'[id].activeJobs = deviceQuotas[id].activeJobs - 1
               /\ deviceQuotas'[id].weight =
                    ScaledWeight(deviceQuotas[id].weight, last'.duration)
               /\ deviceQuotas'[id].maxConcurrent = deviceQuotas[id].maxConcurrent
               /\ deviceQuotas'[id].deviceId = deviceQuotas[id].deviceId]_vars

\* A release with a duration above 2000 ms has lowered the weight of a
\* device's quota, after a faster one had raised it, while the other device
\* holds jobs as well.
C26_Witness ==
  /\ last.op \in {"releaseJobSlot", "job:complete"}
  /\ last.duration > 2000
  /\ last.active > 0
  /\ deviceQuotas[last.dev].weight.slow = 1
  /\ deviceQuotas[last.dev].weight.fast = 1
  /\ \E other \in DOMAIN deviceQuotas \ {last.dev} : deviceQuotas[other].activeJobs > 0

=============================================================================
